---- MODULE Spec2Model ----
(***************************************************************************)
(* Model of src/main.rs: the entropy-guided solver of the match-count      *)
(* guessing game (Password<N>, calculate_entropy, solve_automatically,     *)
(* solve_all, initialize_problem_set).                                     *)
(*                                                                         *)
(* Representation of f64.  An entropy is the f64 sum of the terms          *)
(* -log2(len/n), one per bucket.  The model keeps the exact real value of  *)
(* that sum as the fraction num/den with  sum = log2(num/den)  (a term     *)
(* -log2(len/n) is the factor n/len), and next to it `ulp`, the rounding   *)
(* of the f64 additions.  The terms are added by a parallel sum over a     *)
(* HashMap (lines 132-135): the order of the additions is unspecified.  A  *)
(* sum of one or two terms is the same in every order; a sum of three or   *)
(* more terms can round differently from one order to the next.  Which     *)
(* orders do depends on the 53-bit values, which the model does not        *)
(* compute: it admits every ulp of -UlpErr..UlpErr wherever three or more  *)
(* terms are added, so what holds of the model holds for every rounding.   *)
(* Rounding is smaller than the gap between two different exact sums, so   *)
(* total_cmp orders by the exact value first and by ulp second.            *)
(***************************************************************************)
EXTENDS Integers, Sequences, FiniteSets, TLC

\* Largest PASSWORD_LENGTH explored (the program is built with 5).
MaxN == 2
\* Largest rounding offset of an f64 sum, in units in the last place.
UlpErr == 1
\* How many times the parallel bridge may split the guess pool in two.
MaxSplits == 2
\* Largest candidate slice handed to calculate_entropy in SpecFn.
MaxSet == 4
\* PASSWORD_LENGTH of the build that solve_all is explored with (SpecAll).
MaxNAll == 1

VARIABLES
    N,             \* PASSWORD_LENGTH of the build
    problem_set,   \* PROBLEM_SET, the Vec<Problem> of every candidate
    solution,      \* solve_automatically: the secret (SpecPair: one per run)
    answer_set,    \* solve_automatically: the remaining candidates
    answers,       \* solve_automatically: the guesses made so far
    pc,            \* position of the running function
    runs,          \* solve_all: the state of each secret's solver run
    tries,         \* solve_all: index -> attempts, as collected
    worst_case,    \* solve_all: the (index, attempts) reported
    average,       \* solve_all: <<sum of attempts, number of secrets>>
    self,          \* SpecFn: receiver of the last call
    scored,        \* SpecFn: result of the last calculate_entropy call
    correct        \* SpecFn: arguments and result of the last check_answer call

vars == <<N, problem_set, solution, answer_set, answers, pc, runs, tries,
          worst_case, average, self, scored, correct>>

solver_vars == <<solution, answer_set, answers>>
all_vars == <<runs, tries, worst_case, average>>
fn_vars == <<self, scored, correct>>

None == "none"

----------------------------------------------------------------------------
(* Color and the problem set *)

\* Color::all(), in declaration order.
all == <<"Red", "Green", "Blue", "Yellow">>

\* A pass that walks the sequences and the colors together instead of
\* pairing every sequence with every color.
cartesian_push_zip(ps) ==
    [i \in 1..(Len(ps) * Len(all)) |->
        Append(ps[((i - 1) % Len(ps)) + 1], all[((i - 1) % Len(all)) + 1])]

\* One pass of the loop of initialize_problem_set: the cartesian product of
\* the current sequences (outer) with the colors (inner), the color pushed.
cartesian_push(ps) ==
    [i \in 1..(Len(ps) * Len(all)) |->
        Append(ps[((i - 1) \div Len(all)) + 1], all[((i - 1) % Len(all)) + 1])]

RECURSIVE extend(_, _)
extend(ps, times) ==
    IF times = 0 THEN ps ELSE extend(cartesian_push(ps), times - 1)

\* initialize_problem_set with PASSWORD_LENGTH = n.
initialize_problem_set(n) ==
    extend([i \in 1..Len(all) |-> <<all[i]>>], n - 1)

\* The elements of a Vec.
Elems(s) == {s[i] : i \in 1..Len(s)}

\* Position of a candidate in a Vec that holds it once.
IndexOf(s, c) == CHOOSE i \in 1..Len(s) : s[i] = c

----------------------------------------------------------------------------
(* Password::check_answer *)

RECURSIVE check_loop(_, _, _, _)
check_loop(me, answer, i, cnt) ==
    IF i > Len(me) THEN cnt
    ELSE check_loop(me, answer, i + 1,
                    IF me[i] = answer[i] THEN cnt + 1 ELSE cnt)

\* A check_answer that compares every position of self with the first
\* position of the other password.
check_answer_first(me, answer) ==
    Cardinality({i \in 1..Len(me) : me[i] = answer[1]})

\* A check_answer whose loop leaves the first position out.
check_answer_skip(me, answer) == check_loop(me, answer, 2, 0)

check_answer(me, answer) == check_loop(me, answer, 1, 0)

----------------------------------------------------------------------------
(* Password::calculate_entropy *)

\* answer_map.entry(hints).or_insert(vec![]).push(ans.clone()).
\* (mm and hh name the values of m and hints, evaluated once.)
entry_push(m, hints, ans) ==
    CHOOSE r \in
        {[h \in (DOMAIN mm) \cup {hh} |->
             IF h = hh
             THEN Append(IF hh \in DOMAIN mm THEN mm[hh] ELSE <<>>, ans)
             ELSE mm[h]] : mm \in {m}, hh \in {hints}} : TRUE

\* The loop of lines 126-130 from the i-th candidate on, m built so far.
RECURSIVE build_map(_, _, _, _)
build_map(me, set, i, m) ==
    IF i > Len(set) THEN m
    ELSE build_map(me, set, i + 1,
                   entry_push(m, check_answer(me, set[i]), set[i]))

\* A map whose entries keep only the last candidate pushed.
answer_map_last(me, set) ==
    [h \in {check_answer(me, set[i]) : i \in 1..Len(set)} |->
        <<set[CHOOSE i \in 1..Len(set) :
                /\ check_answer(me, set[i]) = h
                /\ \A j \in (i + 1)..Len(set) : check_answer(me, set[j]) # h]>>]

\* The HashMap built by lines 124-130.
answer_map(me, set) == build_map(me, set, 1, <<>>)

\* A sum whose terms are -log2(len / (n + 1)).
RECURSIVE log2_sum_open(_, _, _, _, _)
log2_sum_open(m, keys, n, num, den) ==
    IF keys = {} THEN [num |-> num, den |-> den]
    ELSE LET h == CHOOSE x \in keys : TRUE
         IN  log2_sum_open(m, keys \ {h}, n, num * (n + 1), den * Len(m[h]))

\* Exact value of the sum of -log2(len / n) over the buckets `keys` of m,
\* added to the sum log2(num / den) of the buckets already visited.
RECURSIVE log2_sum(_, _, _, _, _)
log2_sum(m, keys, n, num, den) ==
    IF keys = {} THEN [num |-> num, den |-> den]
    ELSE LET h == CHOOSE x \in keys : TRUE
         IN  log2_sum(m, keys \ {h}, n, num * n, den * Len(m[h]))

\* The roundings an f64 sum of `terms` terms can end with, the order of
\* the additions being unspecified.
rounding(terms) == IF terms <= 2 THEN {0} ELSE (0 - UlpErr)..UlpErr

\* The f64 sum of lines 132-135 over the buckets of m, with rounding u.
entropy_sum(m, n, u) ==
    [num |-> log2_sum(m, DOMAIN m, n, 1, 1).num,
     den |-> log2_sum(m, DOMAIN m, n, 1, 1).den,
     ulp |-> u]

\* The values calculate_entropy can return: <<entropy, answer_map>>.
calculate_entropy(me, set) ==
    UNION {{<<entropy_sum(m, Len(set), u), m>> :
               u \in rounding(Cardinality(DOMAIN m))} :
           m \in {answer_map(me, set)}}

----------------------------------------------------------------------------
(* f64::total_cmp on entropies *)

RECURSIVE gcd(_, _)
gcd(a, b) == IF b = 0 THEN a ELSE gcd(b, a % b)

total_cmp(a, b) ==
    LET gn == gcd(a.num, b.num)
        gd == gcd(a.den, b.den)
        l == (a.num \div gn) * (b.den \div gd)
        r == (b.num \div gn) * (a.den \div gd)
    IN  IF l < r THEN "Less"
        ELSE IF l > r THEN "Greater"
        ELSE IF a.ulp < b.ulp THEN "Less"
        ELSE IF a.ulp > b.ulp THEN "Greater"
        ELSE "Equal"

----------------------------------------------------------------------------
(* par_iter().map(..).max_by(..) of solve_automatically, lines 149-153 *)

\* A reduction step that keeps its left operand, whatever the entropies.
max_entropy_left(a, b) == a

\* A reduction step that keeps the operand of smaller entropy.
min_entropy(a, b) ==
    IF total_cmp(a[2][1], b[2][1]) = "Less" THEN a ELSE b

\* The step max_by reduces with: the left operand when it compares
\* Greater, the right operand otherwise.  Operands are the mapped items
\* <<comb, <<entropy, distribution>>>>.
max_entropy(a, b) ==
    IF total_cmp(a[2][1], b[2][1]) = "Greater" THEN a ELSE b

\* The items the map closure of line 151 can yield for each comb.
map_score(pool, set) ==
    [i \in 1..Len(pool) |->
        {<<pool[i], r>> : r \in calculate_entropy(pool[i], set)}]

\* Sequential fold of items[i..hi] into the results acc reached so far.
RECURSIVE fold_with(_, _, _, _)
fold_with(items, i, hi, acc) ==
    IF i > hi THEN acc
    ELSE fold_with(items, i + 1, hi,
                   {max_entropy(a, b) : a \in acc, b \in items[i]})

\* The parallel bridge over items[lo..hi]: fold the range sequentially,
\* or split it at its middle, reduce both halves and combine left with
\* right.  The results every such evaluation can end with.
RECURSIVE bridge(_, _, _, _)
bridge(items, lo, hi, splits) ==
    fold_with(items, lo + 1, hi, items[lo])
    \cup
    (IF splits > 0 /\ hi > lo
     THEN LET mid == lo + ((hi - lo + 1) \div 2)
          IN  {max_entropy(a, b) :
                  a \in bridge(items, lo, mid - 1, splits - 1),
                  b \in bridge(items, mid, hi, splits - 1)}
     ELSE {})

\* A selection that reduces the first half of the pool only.
max_by_half(pool, set) ==
    bridge(map_score(pool, set), 1, Len(pool) \div 2, MaxSplits)

\* The items lines 149-153 can select.
max_by(pool, set) == bridge(map_score(pool, set), 1, Len(pool), MaxSplits)

----------------------------------------------------------------------------
(* solve_automatically, lines 141-173 *)

\* The loop condition of line 148, stopping with two candidates left.
searching_two(set) == Len(set) > 2

\* The loop condition of line 148.
searching(set) == Len(set) > 1

\* A loop body that asks the hint of the first comb of the pool instead of
\* the hint of the selected answer.
solve_round_first(pool, secret, set, hist) ==
    {LET answer == w[1]
         distribution == w[2][2]
         hint == check_answer(secret, pool[1])
     IN  IF hint \in DOMAIN distribution
         THEN [answer_set |-> distribution[hint],
               answers |-> Append(hist, answer),
               pc |-> "loop"]
         ELSE [answer_set |-> set,
               answers |-> hist,
               pc |-> "panic"] :
        w \in max_by(pool, set)}

\* One pass of the loop body, lines 149-159: the states it can end in.
solve_round(pool, secret, set, hist) ==
    {LET answer == w[1]
         distribution == w[2][2]
         hint == check_answer(secret, answer)
     IN  IF hint \in DOMAIN distribution
         THEN [answer_set |-> distribution[hint],
               answers |-> Append(hist, answer),
               pc |-> "loop"]
         ELSE [answer_set |-> set,
               answers |-> hist,
               pc |-> "panic"] :
        w \in max_by(pool, set)}

\* main with --once: the problem set is built and a secret generated.
Init ==
    /\ N \in 1..MaxN
    /\ problem_set = initialize_problem_set(N)
    /\ solution \in Elems(problem_set)
    /\ answer_set = problem_set
    /\ answers = <<>>
    /\ pc = "loop"
    /\ runs = None /\ tries = None /\ worst_case = None /\ average = None
    /\ self = None /\ scored = None /\ correct = None

Round ==
    /\ pc = "loop"
    /\ searching(answer_set)
    /\ \E nxt \in solve_round(problem_set, solution, answer_set, answers) :
          /\ answer_set' = nxt.answer_set
          /\ answers' = nxt.answers
          /\ pc' = nxt.pc
    /\ UNCHANGED <<N, problem_set, solution, all_vars, fn_vars>>

Return ==
    /\ pc = "loop"
    /\ ~searching(answer_set)
    /\ pc' = "done"
    /\ UNCHANGED <<N, problem_set, solver_vars, all_vars, fn_vars>>

Next == Round \/ Return

Spec == Init /\ [][Next]_vars

\* The loop of solve_automatically is sequential code that keeps running.
FairSpec == Spec /\ WF_vars(Next)

----------------------------------------------------------------------------
(* solve_all, lines 177-200: one solver run per secret, run in parallel *)

\* The step Iterator::max_by folds with (line 191): the element met first
\* when it compares Greater, the later element otherwise.
max_attempts(x, y) == IF x[2] > y[2] THEN x ELSE y

\* tries.iter().max_by(..) from the i-th element on, acc the fold so far.
RECURSIVE iter_max_by(_, _, _)
iter_max_by(s, i, acc) ==
    IF i > Len(s) THEN acc ELSE iter_max_by(s, i + 1, max_attempts(acc, s[i]))

\* A sum of attempts that leaves the first secret out.
sum_attempts_tail(s, i, acc) ==
    LET f[k \in 0..Len(s)] == IF k <= 1 THEN acc ELSE f[k - 1] + s[k][2]
    IN  f[Len(s)]

\* tries.iter().map(|(_, b)| b).sum() from the i-th element on (line 193).
RECURSIVE sum_attempts(_, _, _)
sum_attempts(s, i, acc) ==
    IF i > Len(s) THEN acc ELSE sum_attempts(s, i + 1, acc + s[i][2])

\* main with --all: the problem set is built, no secret is solved yet.
AllInit ==
    /\ N \in 1..MaxNAll
    /\ problem_set = initialize_problem_set(N)
    /\ runs = [i \in 1..Len(problem_set) |->
                  [answer_set |-> problem_set, answers |-> <<>>, pc |-> "loop"]]
    /\ tries = [i \in 1..Len(problem_set) |-> None]
    /\ worst_case = None /\ average = None
    /\ pc = "map"
    /\ solution = None /\ answer_set = None /\ answers = None
    /\ self = None /\ scored = None /\ correct = None

\* One loop pass of the solver run of the secret problem_set[i].
AllRound(i) ==
    /\ pc = "map"
    /\ runs[i].pc = "loop"
    /\ searching(runs[i].answer_set)
    /\ \E nxt \in solve_round(problem_set, problem_set[i],
                              runs[i].answer_set, runs[i].answers) :
          runs' = [runs EXCEPT ![i] = nxt]
    /\ UNCHANGED <<N, problem_set, pc, tries, worst_case, average,
                   solver_vars, fn_vars>>

\* The run of problem_set[i] returns; the closure of lines 183-188 yields
\* (i, attempts), i counted from 0.
AllReturn(i) ==
    /\ pc = "map"
    /\ runs[i].pc = "loop"
    /\ ~searching(runs[i].answer_set)
    /\ runs' = [runs EXCEPT ![i].pc = "done"]
    /\ tries' = [tries EXCEPT ![i] = <<i - 1, Len(runs[i].answers)>>]
    /\ UNCHANGED <<N, problem_set, pc, worst_case, average,
                   solver_vars, fn_vars>>

\* Lines 191-199, once every run is collected.
Report ==
    /\ pc = "map"
    /\ \A i \in DOMAIN tries : tries[i] # None
    /\ worst_case' = iter_max_by(tries, 2, tries[1])
    /\ average' = <<sum_attempts(tries, 1, 0), Len(tries)>>
    /\ pc' = "reported"
    /\ UNCHANGED <<N, problem_set, runs, tries, solver_vars, fn_vars>>

AllNext ==
    \/ \E i \in DOMAIN runs : AllRound(i)
    \/ \E i \in DOMAIN runs : AllReturn(i)
    \/ Report

SpecAll == AllInit /\ [][AllNext]_vars

----------------------------------------------------------------------------
(* Two runs of solve_automatically, on two secrets, followed side by side *)

\* The hints line 155 computes over a run: one per guess of the history.
hints(secret, hist) ==
    [k \in 1..Len(hist) |-> check_answer(secret, hist[k])]

\* The two runs have made the same guesses and received the same hints.
together(rs, secrets) ==
    /\ rs[1].answers = rs[2].answers
    /\ hints(secrets[1], rs[1].answers) = hints(secrets[2], rs[2].answers)

\* Two calls of solve_automatically on the same problem set, each with a
\* secret of its own.
PairInit ==
    /\ N \in 1..MaxN
    /\ problem_set = initialize_problem_set(N)
    /\ solution \in Elems(problem_set) \X Elems(problem_set)
    /\ runs = [i \in 1..2 |->
                  [answer_set |-> problem_set, answers |-> <<>>, pc |-> "loop"]]
    /\ pc = "pair"
    /\ answer_set = None /\ answers = None
    /\ tries = None /\ worst_case = None /\ average = None
    /\ self = None /\ scored = None /\ correct = None

\* One loop pass of each run, lines 148-159.  The runs are followed as
\* long as the hints they received are the same.
PairRound ==
    /\ pc = "pair"
    /\ together(runs, solution)
    /\ \A i \in 1..2 : runs[i].pc = "loop" /\ searching(runs[i].answer_set)
    /\ \E n1 \in solve_round(problem_set, solution[1],
                             runs[1].answer_set, runs[1].answers),
          n2 \in solve_round(problem_set, solution[2],
                             runs[2].answer_set, runs[2].answers) :
          runs' = <<n1, n2>>
    /\ UNCHANGED <<N, problem_set, pc, solution, answer_set, answers,
                   tries, worst_case, average, fn_vars>>

\* The runs have parted, or have left their loops.
PairReturn ==
    /\ pc = "pair"
    /\ \/ ~together(runs, solution)
       \/ \E i \in 1..2 :
             runs[i].pc # "loop" \/ ~searching(runs[i].answer_set)
    /\ pc' = "compared"
    /\ UNCHANGED <<N, problem_set, solver_vars, all_vars, fn_vars>>

PairNext == PairRound \/ PairReturn

SpecPair == PairInit /\ [][PairNext]_vars

----------------------------------------------------------------------------
(* check_answer and calculate_entropy called on their own *)

FnInit ==
    /\ N \in 1..MaxN
    /\ problem_set = initialize_problem_set(N)
    /\ answer_set = <<>>
    /\ self = None /\ scored = None /\ correct = None
    /\ pc = "fn"
    /\ solution = None /\ answers = None
    /\ runs = None /\ tries = None /\ worst_case = None /\ average = None

\* Grow the slice to score: a sub-sequence of the problem set, as every
\* answer_set of the solver is.
Push(i) ==
    /\ pc = "fn"
    /\ Len(answer_set) < MaxSet
    /\ answer_set # <<>> =>
           i > IndexOf(problem_set, answer_set[Len(answer_set)])
    /\ answer_set' = Append(answer_set, problem_set[i])
    /\ self' = None /\ scored' = None
    /\ UNCHANGED <<N, problem_set, pc, solution, answers, correct, all_vars>>

\* problem_set[g].calculate_entropy(&answer_set)
Score(g) ==
    /\ pc = "fn"
    /\ self' = problem_set[g]
    /\ scored' \in calculate_entropy(problem_set[g], answer_set)
    /\ UNCHANGED <<N, problem_set, pc, solution, answer_set, answers,
                   correct, all_vars>>

\* problem_set[a].check_answer(&problem_set[b])
Check(a, b) ==
    /\ pc = "fn"
    /\ answer_set = <<>> /\ scored = None
    /\ correct' = [me |-> problem_set[a], answer |-> problem_set[b],
                   hits |-> check_answer(problem_set[a], problem_set[b])]
    /\ pc' = "checked"
    /\ UNCHANGED <<N, problem_set, solution, answer_set, answers, self,
                   scored, all_vars>>

FnNext ==
    \/ \E i \in 1..Len(problem_set) : Push(i)
    \/ \E g \in 1..Len(problem_set) : Score(g)
    \/ \E a, b \in 1..Len(problem_set) : Check(a, b)

SpecFn == FnInit /\ [][FnNext]_vars

----------------------------------------------------------------------------
(* Claims about solve_automatically *)

\* C1: under the fairness of sequential code, every run of
\* solve_automatically leaves its loop, and it does so with exactly one
\* remaining candidate, the secret.
C1_Terminates == <>(pc = "done" /\ answer_set = <<solution>>)

C1_Witness == pc = "done" /\ Len(answers) >= 2 /\ answer_set = <<solution>>

\* C2: the secret is a remaining candidate in every state of a run, and the
\* lookup of the bucket of the real feedback (line 157) never fails.
C2_SecretRemains == pc # "panic" /\ solution \in Elems(answer_set)

C2_Witness ==
    /\ pc = "loop" /\ Len(answers) >= 1 /\ Len(answer_set) > 1
    /\ solution \in Elems(answer_set)

\* Exact entropy of a guess against a candidate slice, rounding left out.
exact_entropy(me, set) ==
    LET m == answer_map(me, set)
        e == log2_sum(m, DOMAIN m, Len(set), 1, 1)
    IN  [num |-> e.num, den |-> e.den, ulp |-> 0]

\* Indices of the guesses whose entropy is the maximum over the pool.
max_indices(pool, set) ==
    {i \in 1..Len(pool) :
        \A j \in 1..Len(pool) :
            total_cmp(exact_entropy(pool[j], set),
                      exact_entropy(pool[i], set)) # "Greater"}

lowest(S) == CHOOSE i \in S : \A j \in S : i <= j

\* C3: the guess a round appends is, among the guesses whose entropy is the
\* maximum, the one of lowest index in the problem set.
C3_LowestIndex ==
    [][Len(answers') > Len(answers) =>
        answers'[Len(answers')]
            = problem_set[lowest(max_indices(problem_set, answer_set))]]_vars

\* C4: the guess of a round is the same in every execution: whatever the
\* order in which the parallel work is evaluated and combined, lines
\* 149-153 can select one guess only.
C4_SameGuess ==
    (pc = "loop" /\ searching(answer_set)) =>
        Cardinality({w[1] : w \in max_by(problem_set, answer_set)}) = 1

----------------------------------------------------------------------------
(* Claims about calculate_entropy, check_answer and solve_all *)

RECURSIVE pow(_, _)
pow(b, e) == IF e = 0 THEN 1 ELSE b * pow(b, e - 1)

\* Product of len^len over the buckets `keys` of m.
RECURSIVE len_pow_len(_, _)
len_pow_len(m, keys) ==
    IF keys = {} THEN 1
    ELSE LET h == CHOOSE x \in keys : TRUE
         IN  pow(Len(m[h]), Len(m[h])) * len_pow_len(m, keys \ {h})

\* C5: the entropy calculate_entropy returns is the Shannon entropy
\* H = sum of -p * log2(p), p = len / n, of the partition.  With
\* entropy = log2(num / den) and n * H = log2(n^n / product of len^len),
\* the two are equal exactly when num^n * product len^len = n^n * den^n.
C5_Shannon ==
    (pc = "fn" /\ scored # None /\ answer_set # <<>>) =>
        LET e == scored[1]
            m == scored[2]
            n == Len(answer_set)
        IN  pow(e.num, n) * len_pow_len(m, DOMAIN m) = pow(n, n) * pow(e.den, n)

\* C6: the worst case solve_all reports has the largest attempt count of
\* all secrets and is the first secret, in problem set order, to reach it.
C6_FirstWorst ==
    pc = "reported" =>
        /\ \E i \in DOMAIN tries : tries[i] = worst_case
        /\ \A i \in DOMAIN tries :
              /\ tries[i][2] <= worst_case[2]
              /\ tries[i][2] = worst_case[2] => worst_case[1] <= tries[i][1]

\* C8 as stated: with N = 1 the worst case is 2 attempts and the attempts
\* sum to 7 over the 4 secrets (average 1.75).
C8_TwoRounds ==
    (pc = "reported" /\ N = 1) => (worst_case[2] = 2 /\ average = <<7, 4>>)

\* C8, amended: with N = 1 the worst case is 3 attempts and the attempts
\* sum to 9 over the 4 secrets (average 2.25).
C8_ThreeRounds ==
    (pc = "reported" /\ N = 1) => (worst_case[2] = 3 /\ average = <<9, 4>>)

C8_Witness == pc = "reported" /\ N = 1 /\ Len(tries) = 4

\* C9: the map calculate_entropy returns holds every candidate of the slice
\* in exactly one bucket, the one keyed by its hint against the guess; the
\* bucket sizes sum to the size of the slice; no bucket is empty.
C9_Partition ==
    (pc = "fn" /\ scored # None) =>
        LET m == scored[2]
        IN  /\ \A i \in 1..Len(answer_set) :
                  /\ check_answer(self, answer_set[i]) \in DOMAIN m
                  /\ \A h \in DOMAIN m :
                        Cardinality({k \in 1..Len(m[h]) :
                                        m[h][k] = answer_set[i]})
                          = IF h = check_answer(self, answer_set[i])
                            THEN 1 ELSE 0
            /\ Len(answer_set)
                 = Cardinality({<<h, k>> \in (0..N) \X (1..Len(answer_set)) :
                                   h \in DOMAIN m /\ k <= Len(m[h])})
            /\ \A h \in DOMAIN m : m[h] # <<>>

C9_Witness ==
    /\ pc = "fn" /\ scored # None /\ Len(answer_set) >= 3
    /\ Cardinality(DOMAIN scored[2]) >= 2
    /\ \E h \in DOMAIN scored[2] : Len(scored[2][h]) >= 2

\* C10: check_answer is symmetric, lies between 0 and N, and is N on two
\* equal passwords.
C10_Feedback ==
    pc = "checked" =>
        /\ correct.hits = check_answer(correct.answer, correct.me)
        /\ 0 <= correct.hits /\ correct.hits <= N
        /\ correct.me = correct.answer => correct.hits = N

C10_Witness ==
    /\ pc = "checked" /\ N = 2 /\ correct.hits = 1
    /\ correct.me # correct.answer

----------------------------------------------------------------------------
(* Claims about initialize_problem_set *)

\* C11: the problem set holds |alphabet|^N candidates, each of length N;
\* every sequence of N colors is among them, and none is there twice.
C11_ProblemSpace ==
    /\ Len(problem_set) = pow(Len(all), N)
    /\ \A i \in 1..Len(problem_set) : Len(problem_set[i]) = N
    /\ \A c \in [1..N -> Elems(all)] : c \in Elems(problem_set)
    /\ \A i, j \in 1..Len(problem_set) :
          problem_set[i] = problem_set[j] => i = j

C11_Witness ==
    /\ N = 2 /\ Len(problem_set) = 16
    /\ problem_set[7] = <<"Green", "Blue">>

----------------------------------------------------------------------------
(* Further claims about calculate_entropy *)

\* C12: against a slice of at most one candidate, the entropy
\* calculate_entropy returns is 0, whatever the guess.
C12_ZeroEntropy ==
    (pc = "fn" /\ scored # None /\ Len(answer_set) <= 1) =>
        (scored[1].num = scored[1].den /\ scored[1].ulp = 0)

C12_Witness ==
    /\ pc = "fn" /\ scored # None /\ Len(answer_set) = 1
    /\ self # answer_set[1]
    /\ DOMAIN scored[2] = {1}

----------------------------------------------------------------------------
(* Further claims about solve_automatically *)

\* C13: every round run with more than one remaining candidate appends a
\* guess of non-zero entropy, one that splits the remaining candidates
\* into two buckets or more, and leaves strictly fewer candidates.
C13_Shrinks ==
    [][(pc = "loop" /\ searching(answer_set)) =>
          /\ Len(answers') = Len(answers) + 1
          /\ LET e == exact_entropy(answers'[Len(answers')], answer_set)
                 m == answer_map(answers'[Len(answers')], answer_set)
             IN  e.num > e.den /\ Cardinality(DOMAIN m) >= 2
          /\ Len(answer_set') < Len(answer_set)]_vars

C13_Witness ==
    /\ pc = "loop" /\ N = 2 /\ Len(answers) = 2
    /\ Len(answer_set) > 1 /\ Len(answer_set) < Len(problem_set)

\* The candidates of the problem set that give, for every guess of the
\* history, the hint the secret gives.
consistent(pool, secret, hist) ==
    {c \in Elems(pool) :
        \A k \in 1..Len(hist) :
            check_answer(hist[k], c) = check_answer(hist[k], secret)}

\* C14: after any number of rounds the remaining candidates are exactly the
\* candidates of the problem set consistent with the hints of every guess
\* made: none that is consistent is dropped, none that is not is kept (and
\* none is held twice).
C14_Consistent ==
    pc \in {"loop", "done"} =>
        /\ Elems(answer_set) = consistent(problem_set, solution, answers)
        /\ \A i, j \in 1..Len(answer_set) :
              answer_set[i] = answer_set[j] => i = j

C14_Witness ==
    /\ pc = "loop" /\ N = 2 /\ Len(answers) = 2
    /\ Len(answer_set) = 2
    /\ Elems(answer_set) = consistent(problem_set, solution, answers)

\* C15: the guess a round appends is a candidate of the whole problem set,
\* and its entropy against the remaining candidates is greater than or
\* equal to the entropy of every candidate of the problem set against them.
C15_MaxEntropy ==
    [][Len(answers') > Len(answers) =>
          LET answer == answers'[Len(answers')]
          IN  /\ answer \in Elems(problem_set)
              /\ \A i \in 1..Len(problem_set) :
                    total_cmp(exact_entropy(problem_set[i], answer_set),
                              exact_entropy(answer, answer_set)) # "Greater"]_vars

\* A round has selected a guess that was not a remaining candidate.
C15_Witness ==
    /\ pc = "loop" /\ Len(answers) >= 2
    /\ \E k \in 2..Len(answers) :
          answers[k] \notin consistent(problem_set, solution, SubSeq(answers, 1, k - 1))

\* C16: two runs on two secrets select the same guess in every round up to
\* and including the first round in which the two secrets give different
\* hints: the guess of round k is the same in both runs whenever the
\* guesses and the hints of the rounds before k were the same.  The first
\* guess (k = 1) is the same for every secret.
C16_SameGuesses ==
    pc \in {"pair", "compared"} =>
        \A k \in 1..Len(runs[1].answers) :
            (/\ k <= Len(runs[2].answers)
             /\ \A j \in 1..(k - 1) :
                   /\ runs[1].answers[j] = runs[2].answers[j]
                   /\ check_answer(solution[1], runs[1].answers[j])
                        = check_answer(solution[2], runs[2].answers[j]))
            => runs[1].answers[k] = runs[2].answers[k]

\* C17: the history of a run never holds the same guess twice.
C17_NoRepeat ==
    pc \in {"loop", "done"} =>
        \A i, j \in 1..Len(answers) : answers[i] = answers[j] => i = j

C17_Witness ==
    /\ pc = "done" /\ N = 2 /\ Len(answers) >= 3
    /\ Cardinality(Elems(answers)) = Len(answers)

====
